---- MODULE Spec2Model ----
(***************************************************************************)
(* A model of the playback scheduler of src/src/modules/AudioEngine.js     *)
(* (class AudioEngine) together with the highlight state of                *)
(* LyricsTextManager that the engine drives.                               *)
(*                                                                         *)
(* JavaScript runs one task at a time.  Every action below is one task:    *)
(* a host call, a timer callback, or the 'ended' event of the bowl audio,  *)
(* followed by all the promise continuations (microtasks) it releases.     *)
(* An async function that is suspended on a timer or on the 'ended' event  *)
(* is a record in `procs`.                                                 *)
(*                                                                         *)
(* Time is in milliseconds.  Speeds are in tenths (10 is 1.0x).            *)
(*                                                                         *)
(* What the model leaves out: the time between audio.play() and the        *)
(* resolution of its promise (the 'ended' listener of a blocking play is   *)
(* taken to be added in the task that calls play), and the DOM of the      *)
(* text display, of which only the highlighted and completed marks stay.   *)
(***************************************************************************)
EXTENDS Integers, Sequences, FiniteSets, TLC

VARIABLES
    now,      \* Date.now()
    engine,   \* the fields of the AudioEngine instance
    audio,    \* the audio elements of engine.audioFiles
    tm,       \* the LyricsTextManager handed to startPlayback
    procs,    \* suspended async functions and pending timers
    nextPid,  \* next identity for a record of procs
    out,      \* the host side: callbacks raised, cues sounded, progress stored
    hist,     \* history of the current run, read only by the properties
    lastAct,  \* the task that produced the current state
    opsLeft   \* host calls still allowed

vars == <<now, engine, audio, tm, procs, nextPid, out, hist, lastAct, opsLeft>>

---------------------------------------------------------------------------
(* Bounds of the model *)

MaxTicks == 14        \* the clock stops after this many ticks
MaxOps == 3           \* host calls in one behaviour
MaxBowlTicks == 2     \* the bowl audio ends at most this many ticks after play
TicksPerBeat == 4     \* clock resolution: ticks in one base interval
MaxChars == 3         \* longest character stream of the text specification
CharsPerLine == 2     \* characters of one line of the lyrics display
WebItems == 3         \* items of the sequence given to WebAudioEngine

(* Program constants *)

PollMs == 100         \* waitWithPauseSupport polls at most this far ahead
BaseMs == 1000        \* createPlaybackSequence: 1000 / playbackSpeed
RestartMs == 1000     \* completePlayback: loop restart delay
SpeedUnit == 10       \* 1.0x, in tenths
MinSpeed == 1         \* 0.1x
MaxSpeed == 100       \* 10.0x
Epoch == 100000       \* Date.now() when the model starts
RenderMs == 100       \* loadText: delay of renderLyrics and resetPosition
DefaultDelayMs == 500                 \* delay of an item that gives none

\* Tasks run at the ticks of the clock; a timer fires at the first tick at or
\* after its deadline.
TickMs == BaseMs \div TicksPerBeat
Speeds == {10, 20}                    \* in-range arguments of setPlaybackSpeed
BadSpeeds == {0, 110}                 \* out-of-range arguments
\* the audio files that preloadAudioFiles has put into audioFiles: it leaves
\* out a file that failed to load
Loadable == {{"bowl", "muyu"}, {"bowl"}, {"muyu"}}
\* textManager.characters as createPlaybackSequence reads them: v a verbal
\* character, p one flagged isPunctuation, s one flagged isSpace.  The
\* flags are an input of the engine; parseTextToLines of LyricsTextManager
\* itself strips punctuation and sets neither.
Texts == { <<"p">>, <<"v", "p", "v", "v">> }

Max(a, b) == IF a > b THEN a ELSE b
Min(a, b) == IF a < b THEN a ELSE b

NullSequence == <<>>     \* currentSequence = null
Undefined == -1          \* event.characterIndex of the bowl event

---------------------------------------------------------------------------
(* The world an operation reads and writes, as one record *)

\* hist.notices counts the play-state notifications of the step under way
World == [engine |-> engine, audio |-> audio, tm |-> tm, procs |-> procs,
          nextPid |-> nextPid, out |-> out,
          hist |-> [hist EXCEPT !.notices = 0]]

Commit(w) ==
    /\ engine' = w.engine
    /\ audio' = w.audio
    /\ tm' = w.tm
    /\ procs' = w.procs
    /\ nextPid' = w.nextPid
    /\ out' = w.out
    /\ hist' = w.hist

---------------------------------------------------------------------------
(* LyricsTextManager *)

\* charData.lineIndex of the character at index i
lineIndex(i) == i \div CharsPerLine

clearHighlight(t) == [t EXCEPT !.highlighted = {}]

\* highlightCharacter that does not clear the previous highlight
highlightCharacter_KeepsHighlight(t, charIndex) ==
    IF ~t.isHighlightEnabled \/ charIndex < 0 \/ charIndex >= Len(t.characters)
    THEN t
    ELSE [t EXCEPT !.currentCharIndex = charIndex,
                   !.currentLineIndex = lineIndex(charIndex),
                   !.highlighted = @ \cup {charIndex},
                   !.completed = @ \cup {i \in 0..(charIndex - 1) : TRUE}]

\* highlightCharacter that marks as completed the characters before charIndex
\* and no other
highlightCharacter_RestartsCompleted(t, charIndex) ==
    IF ~t.isHighlightEnabled \/ charIndex < 0 \/ charIndex >= Len(t.characters)
    THEN t
    ELSE [clearHighlight(t) EXCEPT
                   !.currentCharIndex = charIndex,
                   !.currentLineIndex = lineIndex(charIndex),
                   !.highlighted = {charIndex},
                   !.completed = {i \in 0..(charIndex - 1) : TRUE}]

highlightCharacter(t, charIndex) ==
    IF ~t.isHighlightEnabled \/ charIndex < 0 \/ charIndex >= Len(t.characters)
    THEN t
    ELSE [clearHighlight(t) EXCEPT
                   !.currentCharIndex = charIndex,
                   !.currentLineIndex = lineIndex(charIndex),
                   !.highlighted = {charIndex},
                   !.completed = @ \cup {i \in 0..(charIndex - 1) : TRUE}]

\* resetPosition that leaves the completed marks
resetPosition_KeepsCompleted(t) ==
    [clearHighlight(t) EXCEPT !.currentCharIndex = 0, !.currentLineIndex = 0]

resetPosition(t) ==
    [clearHighlight(t) EXCEPT !.currentCharIndex = 0,
                              !.currentLineIndex = 0,
                              !.completed = {}]

jumpToPosition(t, charIndex) ==
    IF charIndex >= 0 /\ charIndex < Len(t.characters)
    THEN highlightCharacter(t, charIndex)
    ELSE t

\* percentage is a whole number of percent
setProgressPosition(t, percentage) ==
    LET targetIndex == (percentage * (Len(t.characters) - 1)) \div 100
    IN jumpToPosition(t, targetIndex)

setHighlightEnabled(t, enabled) ==
    IF enabled
    THEN [t EXCEPT !.isHighlightEnabled = TRUE]
    ELSE clearHighlight([t EXCEPT !.isHighlightEnabled = FALSE])

\* a LyricsTextManager after loadText has parsed the characters
TextManager(characters) ==
    [characters |-> characters, currentCharIndex |-> 0, currentLineIndex |-> 0,
     highlighted |-> {}, completed |-> {}, isHighlightEnabled |-> TRUE]

\* loadText up to its timer: parseTextToLines replaces the characters
loadText(t, characters) == [t EXCEPT !.characters = characters]

\* getTextStats; progress is the percentage rounded down to a whole number,
\* and 0 / 0 (a text of one character) is NaN
getTextStats(t) ==
    [totalCharacters |-> Len(t.characters),
     currentCharIndex |-> t.currentCharIndex,
     currentLineIndex |-> t.currentLineIndex,
     progress |-> IF Len(t.characters) = 0 THEN 0
                  ELSE IF Len(t.characters) = 1 THEN Undefined
                  ELSE (t.currentCharIndex * 100) \div (Len(t.characters) - 1),
     hasText |-> Len(t.characters) > 0]

\* the value of object[key]: undefined when the object has no such property
Property(object, key) ==
    IF key \in DOMAIN object THEN object[key] ELSE Undefined

\* value || 0 for a number, undefined or NaN
OrZero(value) == IF value = Undefined THEN 0 ELSE value

\* the entry of one sutra in the stored progress data: none yet
NoProgress == [present |-> FALSE, percentage |-> 0, characterIndex |-> 0]

\* StorageManager.saveProgress for the current sutra
saveProgress(progress) ==
    [present |-> TRUE,
     percentage |-> OrZero(progress.percentage),
     characterIndex |-> OrZero(progress.characterIndex)]

\* UIController.saveCurrentProgress with currentSutraId set; the result is the
\* entry of that sutra
saveCurrentProgress(t) ==
    LET textStats == getTextStats(t)
        progress == [percentage |-> Property(textStats, "progress"),
                     characterIndex |-> Property(textStats, "currentIndex")]
    IN saveProgress(progress)

\* UIController.restorePlaybackProgress for the current sutra
restorePlaybackProgress(t, saved) ==
    IF saved.present THEN jumpToPosition(t, saved.characterIndex) ELSE t

---------------------------------------------------------------------------
(* Callbacks to the host *)

\* onError: the host shows the error and sets the play state of its
\* controls to (false, false)
handleError(w) ==
    [w EXCEPT !.out.errors = @ + 1, !.out.playState = <<FALSE, FALSE>>]

notifyPlayStateChange(w, isPlaying) ==
    [w EXCEPT !.out.playState = <<isPlaying, w.engine.isPaused>>,
              !.hist.notices = @ + 1]

\* onSequenceComplete: the host sets the play state of its controls to
\* (false, false)
notifySequenceComplete(w) ==
    [w EXCEPT !.out.completes = @ + 1, !.out.playState = <<FALSE, FALSE>>]

notifySequenceProgress(w, index, event) ==
    LET w1 == IF event.characterIndex # Undefined /\ w.engine.textManager
              THEN [w EXCEPT !.tm = highlightCharacter(@, event.characterIndex)]
              ELSE w
    IN [w1 EXCEPT !.out.progress = Append(@, index)]

---------------------------------------------------------------------------
(* Cue events and the sequence builder *)

BowlEvent == [type |-> "bowl", delay |-> 0, characterIndex |-> Undefined,
              noWait |-> FALSE]

MuyuEvent(muyuIndex, i, speed) ==
    [type |-> "muyu", delay |-> (muyuIndex * BaseMs * SpeedUnit) \div speed,
     characterIndex |-> i, noWait |-> TRUE]

isMuyu(event) == event.type = "muyu"
isStartBowl(event) == event.type = "bowl"

RECURSIVE MuyuEventsFrom(_, _, _, _)

\* the loop of createPlaybackSequence with the rank of a cue taken from the
\* index of its character
MuyuEventsFrom_RankByIndex(characters, i, muyuIndex, speed) ==
    IF i >= Len(characters) THEN <<>>
    ELSE IF characters[i + 1] # "p" /\ characters[i + 1] # "s"
         THEN <<MuyuEvent(i, i, speed)>>
                  \o MuyuEventsFrom(characters, i + 1, muyuIndex + 1, speed)
         ELSE MuyuEventsFrom(characters, i + 1, muyuIndex, speed)

\* the loop of createPlaybackSequence over the characters i, i+1, ...
MuyuEventsFrom(characters, i, muyuIndex, speed) ==
    IF i >= Len(characters) THEN <<>>
    ELSE IF characters[i + 1] # "p" /\ characters[i + 1] # "s"
         THEN <<MuyuEvent(muyuIndex, i, speed)>>
                  \o MuyuEventsFrom(characters, i + 1, muyuIndex + 1, speed)
         ELSE MuyuEventsFrom(characters, i + 1, muyuIndex, speed)

\* createPlaybackSequence that reads no character data: a cue for every index
createPlaybackSequence_NoCharData(characters, speed) ==
    <<BowlEvent>> \o [k \in 1..Len(characters) |-> MuyuEvent(k - 1, k - 1, speed)]

createPlaybackSequence(characters, speed) ==
    <<BowlEvent>> \o MuyuEventsFrom(characters, 0, 0, speed)

---------------------------------------------------------------------------
(* Records of procs *)

NoEvents == <<>>

Proc(id, kind, st, i, events, ev, startTime, delay, pollAt) ==
    [id |-> id, kind |-> kind, st |-> st, i |-> i, events |-> events, ev |-> ev,
     startTime |-> startTime, delay |-> delay, pollAt |-> pollAt]

\* what is left of the wait of p, as checkAndWait computes it
Remaining(p) == p.delay - (now - p.startTime)

---------------------------------------------------------------------------
(* AudioEngine *)

\* playAudio up to its first suspension.  threw: it raised to its caller;
\* played: audio.play() was called on the element.
playAudio(w, audioKey, noWait) ==
    IF ~w.engine.isPlaying
    THEN [w |-> w, threw |-> FALSE, played |-> FALSE]
    ELSE IF audioKey \notin w.audio.playable
    THEN [w |-> handleError(w), threw |-> TRUE, played |-> FALSE]
    ELSE [w |-> IF audioKey = "bowl"
                THEN [w EXCEPT !.audio.sounding = TRUE, !.audio.since = now]
                ELSE w,
          threw |-> FALSE, played |-> TRUE]

\* playAudio for one event, with the sounded cue recorded for the host
Dispatch(w, event) ==
    LET r == playAudio(w, event.type, event.noWait)
    IN IF r.played
       THEN [r EXCEPT !.w.out.cues =
                           Append(@, <<event.type, event.characterIndex>>),
                      !.w.hist.afterStop =
                           IF r.w.hist.stopped THEN @ + 1 ELSE @,
                      !.w.hist.heldCue =
                           @ \/ (/\ isMuyu(event)
                                 /\ (~w.engine.isPlaying \/ w.engine.isPaused))]
       ELSE r

\* stopPlayback that forgets to clear the paused flag
stopPlayback_KeepsPaused(w) ==
    LET w1 == [w EXCEPT !.engine.isPlaying = FALSE,
                        !.engine.currentSequence = NullSequence,
                        !.engine.sequenceIndex = 0,
                        !.audio.sounding = FALSE,
                        !.tm = IF w.engine.textManager
                               THEN resetPosition(@) ELSE @,
                        !.hist.stopped = TRUE,
                        !.hist.stops = @ + 1,
                        !.hist.stoppedWaits =
                            {p.id : p \in {q \in w.procs : q.st = "wait"}}]
    IN notifyPlayStateChange(w1, FALSE)

stopPlayback(w) ==
    LET w1 == [w EXCEPT !.engine.isPlaying = FALSE,
                        !.engine.isPaused = FALSE,
                        !.engine.currentSequence = NullSequence,
                        !.engine.sequenceIndex = 0,
                        !.audio.sounding = FALSE,
                        !.tm = IF w.engine.textManager
                               THEN resetPosition(@) ELSE @,
                        !.hist.stopped = TRUE,
                        !.hist.stops = @ + 1,
                        !.hist.stoppedWaits =
                            {p.id : p \in {q \in w.procs : q.st = "wait"}}]
    IN notifyPlayStateChange(w1, FALSE)

\* a catch block that reports the error and leaves playback as it is
CatchAndStop_OnlyReports(w) == handleError(w)

\* the catch blocks of startPlaybackSequence and of resumePlayback
CatchAndStop(w) == stopPlayback(handleError(w))

completePlayback(w) ==
    IF w.engine.isLooping /\ w.engine.textManager
    THEN [w EXCEPT !.tm = resetPosition(@),
                   !.procs = @ \cup {Proc(w.nextPid, "loop", "timer", 0,
                                          NoEvents, BowlEvent, now, RestartMs,
                                          now + RestartMs)},
                   !.nextPid = @ + 1]
    ELSE notifySequenceComplete(
             notifyPlayStateChange(
                 [w EXCEPT !.engine.isPlaying = FALSE,
                           !.engine.isPaused = FALSE], FALSE))

RECURSIVE executeMuyuSequence(_, _, _, _)
RECURSIVE MuyuAfterWait(_, _, _, _)
RECURSIVE executeSequence(_, _)
RECURSIVE ExecAfterWait(_, _, _)
RECURSIVE ExecAfterPlay(_, _, _)
RECURSIVE checkAndWait(_, _)

\* the resolved promise of waitWithPauseSupport resumes its caller
WaitResolved(w, p) ==
    IF p.kind = "phases"
    THEN MuyuAfterWait(w, p.id, p.events, p.i)
    ELSE ExecAfterWait(w, p.id, p.ev)

\* checkAndWait that does not look at the paused flag
checkAndWait_IgnoresPause(w, p) ==
    IF ~w.engine.isPlaying
    THEN WaitResolved(w, p)
    ELSE IF Remaining(p) <= 0
    THEN WaitResolved(w, p)
    ELSE [w EXCEPT !.procs =
              @ \cup {[p EXCEPT !.pollAt = now + Min(Remaining(p), PollMs)]}]

checkAndWait(w, p) ==
    IF ~w.engine.isPlaying
    THEN WaitResolved(w, p)
    ELSE IF w.engine.isPaused
    THEN [w EXCEPT !.procs = @ \cup {[p EXCEPT !.pollAt = now + PollMs]}]
    ELSE IF Remaining(p) <= 0
    THEN WaitResolved(w, p)
    ELSE [w EXCEPT !.procs =
              @ \cup {[p EXCEPT !.pollAt = now + Min(Remaining(p), PollMs)]}]

waitWithPauseSupport(w, p) == checkAndWait(w, p)

\* executeMuyuSequence from loop index i on, up to its next suspension
executeMuyuSequence(w, pid, muyuEvents, i) ==
    IF i >= Len(muyuEvents)
    THEN completePlayback(w)
    ELSE IF ~w.engine.isPlaying \/ w.engine.isPaused
    THEN w
    ELSE LET event == muyuEvents[i + 1]
             elapsedTime == now - w.engine.muyuStartTime
             waitTime == Max(0, event.delay - elapsedTime)
         IN IF waitTime > 0
            THEN waitWithPauseSupport(w,
                     Proc(pid, "phases", "wait", i, muyuEvents, event,
                          now, waitTime, now))
            ELSE MuyuAfterWait(w, pid, muyuEvents, i)

\* the loop that goes on two cues further after a dispatch
MuyuAfterWait_SkipsCue(w, pid, muyuEvents, i) ==
    IF ~w.engine.isPlaying \/ w.engine.isPaused
    THEN w
    ELSE LET event == muyuEvents[i + 1]
             r == Dispatch(w, event)
         IN IF r.threw
            THEN executeMuyuSequence([r.w EXCEPT !.hist.failed = TRUE],
                                     pid, muyuEvents, i + 1)
            ELSE executeMuyuSequence(notifySequenceProgress(r.w, i, event),
                                     pid, muyuEvents, i + 2)

MuyuAfterWait(w, pid, muyuEvents, i) ==
    IF ~w.engine.isPlaying \/ w.engine.isPaused
    THEN w
    ELSE LET event == muyuEvents[i + 1]
             r == Dispatch(w, event)
         IN IF r.threw
            THEN executeMuyuSequence([r.w EXCEPT !.hist.failed = TRUE],
                                     pid, muyuEvents, i + 1)
            ELSE executeMuyuSequence(notifySequenceProgress(r.w, i, event),
                                     pid, muyuEvents, i + 1)

\* executeSequenceInPhases after the bowl
PhasesAfterBowl(w, pid) ==
    IF w.engine.currentSequence = NullSequence
    THEN CatchAndStop(w)
    ELSE LET muyuEvents == SelectSeq(w.engine.currentSequence, isMuyu)
         IN IF Len(muyuEvents) > 0
            THEN executeMuyuSequence([w EXCEPT !.engine.muyuStartTime = now],
                                     pid, muyuEvents, 0)
            ELSE w

\* executeSequenceInPhases that does not await the end of the bowl
executeSequenceInPhases_NoBowlWait(w, pid) ==
    LET bowls == SelectSeq(w.engine.currentSequence, isStartBowl)
    IN IF Len(bowls) = 0
       THEN PhasesAfterBowl(w, pid)
       ELSE LET r == Dispatch(w, bowls[1])
            IN IF r.threw THEN CatchAndStop(r.w)
               ELSE PhasesAfterBowl(r.w, pid)

executeSequenceInPhases(w, pid) ==
    LET bowls == SelectSeq(w.engine.currentSequence, isStartBowl)
    IN IF Len(bowls) = 0
       THEN PhasesAfterBowl(w, pid)
       ELSE LET r == Dispatch(w, bowls[1])
            IN IF r.threw THEN CatchAndStop(r.w)
               ELSE IF r.played
               THEN [r.w EXCEPT !.procs =
                        @ \cup {Proc(pid, "phases", "bowl", 0, NoEvents,
                                     bowls[1], now, 0, now)}]
               ELSE PhasesAfterBowl(r.w, pid)

executeSequence(w, pid) ==
    IF w.engine.currentSequence = NullSequence
       \/ w.engine.sequenceIndex >= Len(w.engine.currentSequence)
    THEN completePlayback(w)
    ELSE LET currentEvent == w.engine.currentSequence[w.engine.sequenceIndex + 1]
             elapsedTime == now - w.engine.sequenceStartTime
             waitTime == Max(0, currentEvent.delay - elapsedTime)
         IN IF waitTime > 0
            THEN waitWithPauseSupport(w,
                     Proc(pid, "exec", "wait", 0, NoEvents, currentEvent,
                          now, waitTime, now))
            ELSE ExecAfterWait(w, pid, currentEvent)

ExecAfterWait(w, pid, currentEvent) ==
    IF ~w.engine.isPlaying \/ w.engine.isPaused
    THEN w
    ELSE LET r == Dispatch(w, currentEvent)
         IN IF r.threw
            THEN CatchAndStop([r.w EXCEPT !.hist.failed =
                                   @ \/ isMuyu(currentEvent)])
            ELSE IF r.played /\ ~currentEvent.noWait
            THEN [r.w EXCEPT !.procs =
                     @ \cup {Proc(pid, "exec", "bowl", 0, NoEvents,
                                  currentEvent, now, 0, now)}]
            ELSE ExecAfterPlay(r.w, pid, currentEvent)

\* executeSequence after playAudio returned: progress, next index, recursion
ExecAfterPlay(w, pid, currentEvent) ==
    IF w.engine.currentSequence = NullSequence
    THEN CatchAndStop(w)
    ELSE executeSequence(
             [notifySequenceProgress(w, w.engine.sequenceIndex, currentEvent)
                 EXCEPT !.engine.sequenceIndex = @ + 1],
             pid)

\* the phase of the run: "start" while executeSequenceInPhases awaits the bowl,
\* "periodic" while executeMuyuSequence is in a wait
Phase(w) ==
    IF \E p \in w.procs : p.kind = "phases" /\ p.st = "wait" THEN "periodic"
    ELSE IF \E p \in w.procs : p.kind = "phases" /\ p.st = "bowl" THEN "start"
    ELSE "none"

MuyuWaits(w) == {p \in w.procs : p.kind = "phases" /\ p.st = "wait"}

startPlaybackSequence(w, sequence) ==
    IF w.engine.isPlaying
    THEN w
    ELSE LET w1 == [w EXCEPT !.engine.currentSequence = sequence,
                             !.engine.sequenceIndex = 0,
                             !.engine.isPlaying = TRUE,
                             !.engine.isPaused = FALSE,
                             !.engine.sequenceStartTime = now,
                             !.nextPid = @ + 1,
                             !.out = [@ EXCEPT !.cues = <<>>, !.progress = <<>>,
                                               !.completes = 0, !.errors = 0],
                             !.hist = [@ EXCEPT !.seq = sequence,
                                                !.runs = @ + 1,
                                                !.stops = 0,
                                                !.hostStops = 0,
                                                !.pausedIn = "none",
                                                !.remAtPause = {},
                                                !.resumedFrom = "none",
                                                !.failed = FALSE,
                                                !.looping = w.engine.isLooping]]
         IN executeSequenceInPhases(notifyPlayStateChange(w1, TRUE), w.nextPid)

\* startPlayback(textManager); threw: it raised to its caller
startPlayback(w) ==
    IF Len(w.tm.characters) = 0
    THEN [w |-> handleError(w), threw |-> TRUE]
    ELSE LET w1 == [w EXCEPT !.engine.textManager = TRUE]
             sequence == createPlaybackSequence(w.tm.characters,
                                                w.engine.playbackSpeed)
         IN [w |-> startPlaybackSequence(w1, sequence), threw |-> FALSE]

\* pausePlayback that reports the pause whatever the state of the engine
pausePlayback_AlwaysNotifies(w) ==
    IF w.engine.isPlaying /\ ~w.engine.isPaused
    THEN notifyPlayStateChange(
             [w EXCEPT !.engine.isPaused = TRUE,
                       !.hist.pausedIn = Phase(w),
                       !.hist.remAtPause =
                           {<<p.id, Remaining(p)>> : p \in MuyuWaits(w)}],
             FALSE)
    ELSE notifyPlayStateChange(w, FALSE)

pausePlayback(w) ==
    IF w.engine.isPlaying /\ ~w.engine.isPaused
    THEN notifyPlayStateChange(
             [w EXCEPT !.engine.isPaused = TRUE,
                       !.hist.pausedIn = Phase(w),
                       !.hist.remAtPause =
                           {<<p.id, Remaining(p)>> : p \in MuyuWaits(w)}],
             FALSE)
    ELSE w

resumePlayback(w) ==
    IF w.engine.isPlaying /\ w.engine.isPaused
    THEN executeSequence(
             notifyPlayStateChange(
                 [w EXCEPT !.engine.isPaused = FALSE,
                           !.nextPid = @ + 1,
                           !.hist.resumedFrom = w.hist.pausedIn],
                 TRUE),
             w.nextPid)
    ELSE w

\* adjustPlaybackSpeed with the ratio taken as newSpeed / oldSpeed
adjustPlaybackSpeed_InvertedRatio(w, oldSpeed, newSpeed) ==
    IF ~w.engine.isPlaying THEN w
    ELSE IF w.engine.muyuStartTime = 0 THEN w
    ELSE LET currentTime == now
             elapsedTime == currentTime - w.engine.muyuStartTime
             adjustedElapsedTime == (elapsedTime * newSpeed) \div oldSpeed
         IN [w EXCEPT !.engine.muyuStartTime = currentTime - adjustedElapsedTime]

\* adjustPlaybackSpeed with the ratio taken against the base speed 1.0
adjustPlaybackSpeed_IgnoresOldSpeed(w, oldSpeed, newSpeed) ==
    IF ~w.engine.isPlaying THEN w
    ELSE IF w.engine.muyuStartTime = 0 THEN w
    ELSE LET currentTime == now
             elapsedTime == currentTime - w.engine.muyuStartTime
             adjustedElapsedTime == (elapsedTime * SpeedUnit) \div newSpeed
         IN [w EXCEPT !.engine.muyuStartTime = currentTime - adjustedElapsedTime]

adjustPlaybackSpeed(w, oldSpeed, newSpeed) ==
    IF ~w.engine.isPlaying THEN w
    ELSE IF w.engine.muyuStartTime = 0 THEN w
    ELSE LET currentTime == now
             elapsedTime == currentTime - w.engine.muyuStartTime
             adjustedElapsedTime == (elapsedTime * oldSpeed) \div newSpeed
         IN [w EXCEPT !.engine.muyuStartTime = currentTime - adjustedElapsedTime]

\* setPlaybackSpeed that rebuilds the sequence of the run at the new speed
setPlaybackSpeed_Rebuilds(w, speed) ==
    IF speed < MinSpeed \/ speed > MaxSpeed
    THEN w
    ELSE LET oldSpeed == w.engine.playbackSpeed
             w1 == [w EXCEPT !.engine.playbackSpeed = speed]
         IN IF w1.engine.isPlaying
            THEN adjustPlaybackSpeed(
                     [w1 EXCEPT !.engine.currentSequence =
                          createPlaybackSequence(w.tm.characters, speed)],
                     oldSpeed, speed)
            ELSE w1

\* setPlaybackSpeed that has no upper limit
setPlaybackSpeed_NoUpperLimit(w, speed) ==
    IF speed < MinSpeed
    THEN w
    ELSE LET oldSpeed == w.engine.playbackSpeed
             w1 == [w EXCEPT !.engine.playbackSpeed = speed]
         IN IF w1.engine.isPlaying
            THEN adjustPlaybackSpeed(w1, oldSpeed, speed)
            ELSE w1

setPlaybackSpeed(w, speed) ==
    IF speed < MinSpeed \/ speed > MaxSpeed
    THEN w
    ELSE LET oldSpeed == w.engine.playbackSpeed
             w1 == [w EXCEPT !.engine.playbackSpeed = speed]
         IN IF w1.engine.isPlaying
            THEN adjustPlaybackSpeed(w1, oldSpeed, speed)
            ELSE w1

setLooping(w, isLooping) ==
    [w EXCEPT !.engine.isLooping = isLooping,
              !.hist.looping = @ \/ isLooping]

---------------------------------------------------------------------------
(* Tasks *)

TimerDue(p) == p.st \in {"wait", "timer", "render"} /\ p.pollAt <= now

Tick ==
    /\ now + TickMs <= Epoch + MaxTicks * TickMs
    /\ \A p \in procs : ~TimerDue(p)
    /\ audio.sounding => now - audio.since < MaxBowlTicks * TickMs
    /\ now' = now + TickMs
    /\ lastAct' = "tick"
    /\ UNCHANGED <<engine, audio, tm, procs, nextPid, out, hist, opsLeft>>

HostCall(name, w) ==
    /\ opsLeft > 0
    /\ opsLeft' = opsLeft - 1
    /\ lastAct' = name
    /\ Commit(w)
    /\ UNCHANGED now

HostStart ==
    HostCall("start", startPlayback([World EXCEPT !.hist.stopped = FALSE,
                                                  !.hist.afterStop = 0]).w)

HostPause == HostCall("pause", pausePlayback(World))

HostResume == HostCall("resume", resumePlayback(World))

HostStop ==
    HostCall("stop", [stopPlayback(World) EXCEPT !.hist.hostStops = @ + 1])

HostSetSpeed ==
    \E speed \in Speeds \cup BadSpeeds :
        HostCall("setSpeed", setPlaybackSpeed(World, speed))

HostSetLooping ==
    \E isLooping \in BOOLEAN :
        HostCall("setLooping", setLooping(World, isLooping))

\* a timer of waitWithPauseSupport fires
Poll ==
    \E p \in procs :
        /\ p.st = "wait"
        /\ TimerDue(p)
        /\ Commit(checkAndWait([World EXCEPT !.procs = @ \ {p}], p))
        /\ lastAct' = "poll"
        /\ UNCHANGED <<now, opsLeft>>

\* the timer of completePlayback fires
LoopRestart ==
    \E p \in procs :
        /\ p.st = "timer"
        /\ TimerDue(p)
        /\ LET r == startPlayback([World EXCEPT !.procs = @ \ {p}])
           IN Commit(IF r.threw THEN CatchAndStop(r.w) ELSE r.w)
        /\ lastAct' = "loopRestart"
        /\ UNCHANGED <<now, opsLeft>>

\* the listeners of 'ended', in the order they were added
RECURSIVE EndedListeners(_, _)
EndedListeners(w, ids) ==
    IF ids = {} THEN w
    ELSE LET id == CHOOSE x \in ids : \A y \in ids : x <= y
             p == CHOOSE q \in w.procs : q.id = id
             w1 == [w EXCEPT !.procs = @ \ {p}]
         IN EndedListeners(IF p.kind = "phases"
                           THEN PhasesAfterBowl(w1, p.id)
                           ELSE ExecAfterPlay(w1, p.id, p.ev),
                           ids \ {id})

\* the bowl audio plays to its end
BowlEnded ==
    /\ audio.sounding
    /\ now > audio.since
    /\ Commit(EndedListeners([World EXCEPT !.audio.sounding = FALSE],
                             {p.id : p \in {q \in procs : q.st = "bowl"}}))
    /\ lastAct' = "bowlEnded"
    /\ UNCHANGED <<now, opsLeft>>

---------------------------------------------------------------------------

Init ==
    /\ now = Epoch
    /\ engine = [isPlaying |-> FALSE, isPaused |-> FALSE, isLooping |-> FALSE,
                 playbackSpeed |-> SpeedUnit, currentSequence |-> NullSequence,
                 sequenceIndex |-> 0, sequenceStartTime |-> 0,
                 muyuStartTime |-> 0, textManager |-> FALSE]
    /\ audio \in {[playable |-> loaded, sounding |-> FALSE, since |-> 0] :
                        loaded \in Loadable}
    /\ tm \in {TextManager(t) : t \in Texts}
    /\ procs = {}
    /\ nextPid = 1
    /\ out = [cues |-> <<>>, progress |-> <<>>, completes |-> 0, errors |-> 0,
              playState |-> <<FALSE, FALSE>>, saved |-> NoProgress,
              isLooping |-> FALSE]
    /\ hist = [seq |-> NullSequence, runs |-> 0,
               stopped |-> FALSE, afterStop |-> 0, stops |-> 0,
               hostStops |-> 0,
               pausedIn |-> "none", remAtPause |-> {}, resumedFrom |-> "none",
               failed |-> FALSE, looping |-> FALSE, heldCue |-> FALSE,
               notices |-> 0, stoppedWaits |-> {},
               arg |-> Undefined]
    /\ lastAct = "init"
    /\ opsLeft = MaxOps

Next ==
    \/ Tick
    \/ HostStart
    \/ HostPause
    \/ HostResume
    \/ HostStop
    \/ HostSetSpeed
    \/ HostSetLooping
    \/ Poll
    \/ LoopRestart
    \/ BowlEnded

Spec == Init /\ [][Next]_vars

---------------------------------------------------------------------------
(* The text specification: the operations of LyricsTextManager and the     *)
(* sequence builder of the engine, over every character stream of at most  *)
(* MaxChars characters.  No playback runs in it.                           *)

CharKinds == {"v", "p", "s"}

\* the character streams of at most n characters
RECURSIVE Streams(_)
Streams(n) ==
    IF n = 0 THEN {<<>>}
    ELSE LET shorter == Streams(n - 1)
         IN shorter \cup {Append(t, c) :
                             t \in {x \in shorter : Len(x) = n - 1},
                             c \in CharKinds}

Percentages == {0, 50, 100}     \* arguments of setProgressPosition

\* a call of the host on the text manager; hist.arg keeps its argument
TextCall(name, arg, t) ==
    /\ tm' = t
    /\ lastAct' = name
    /\ hist' = [hist EXCEPT !.arg = arg]
    /\ UNCHANGED <<now, engine, audio, procs, nextPid, out, opsLeft>>

TextHighlight ==
    \E charIndex \in -1..MaxChars :
        TextCall("highlight", charIndex, highlightCharacter(tm, charIndex))

TextJump ==
    \E charIndex \in -1..MaxChars :
        TextCall("jump", charIndex, jumpToPosition(tm, charIndex))

TextSetProgress ==
    \E percentage \in Percentages :
        TextCall("setProgress", percentage,
                 setProgressPosition(tm, percentage))

\* resetPosition takes no argument: hist.arg keeps the position it is called at
TextReset == TextCall("reset", tm.currentCharIndex, resetPosition(tm))

TextSetHighlightEnabled ==
    \E enabled \in BOOLEAN :
        TextCall("setHighlightEnabled", IF enabled THEN 1 ELSE 0,
                 setHighlightEnabled(tm, enabled))

\* createPlaybackSequence as startPlayback calls it, with getCharacterData
\* reading the characters of the text manager; hist.seq keeps its result
TextBuild ==
    /\ hist' = [hist EXCEPT !.seq = createPlaybackSequence(tm.characters,
                                                          engine.playbackSpeed)]
    /\ lastAct' = "build"
    /\ UNCHANGED <<now, engine, audio, tm, procs, nextPid, out, opsLeft>>

InitText ==
    /\ now = Epoch
    /\ engine \in {[isPlaying |-> FALSE, isPaused |-> FALSE,
                     isLooping |-> FALSE,
                     playbackSpeed |-> speed, currentSequence |-> NullSequence,
                     sequenceIndex |-> 0, sequenceStartTime |-> 0,
                     muyuStartTime |-> 0, textManager |-> FALSE] :
                        speed \in Speeds}
    /\ audio = [playable |-> {"bowl", "muyu"}, sounding |-> FALSE, since |-> 0]
    /\ tm \in {TextManager(t) : t \in Streams(MaxChars)}
    /\ procs = {}
    /\ nextPid = 1
    /\ out = [cues |-> <<>>, progress |-> <<>>, completes |-> 0, errors |-> 0,
              playState |-> <<FALSE, FALSE>>, saved |-> NoProgress,
              isLooping |-> FALSE]
    /\ hist = [seq |-> NullSequence, runs |-> 0,
               stopped |-> FALSE, afterStop |-> 0, stops |-> 0,
               hostStops |-> 0,
               pausedIn |-> "none", remAtPause |-> {}, resumedFrom |-> "none",
               failed |-> FALSE, looping |-> FALSE, heldCue |-> FALSE,
               notices |-> 0, stoppedWaits |-> {},
               arg |-> Undefined]
    /\ lastAct = "init"
    /\ opsLeft = MaxOps

\* saveCurrentProgress; hist.arg keeps the position it is called at
TextSaveProgress ==
    /\ out' = [out EXCEPT !.saved = saveCurrentProgress(tm)]
    /\ lastAct' = "save"
    /\ hist' = [hist EXCEPT !.arg = tm.currentCharIndex]
    /\ UNCHANGED <<now, engine, audio, tm, procs, nextPid, opsLeft>>

\* restorePlaybackProgress; hist.arg keeps the position it is called at
TextRestoreProgress ==
    /\ tm' = restorePlaybackProgress(tm, out.saved)
    /\ lastAct' = "restore"
    /\ hist' = [hist EXCEPT !.arg = tm.currentCharIndex]
    /\ UNCHANGED <<now, engine, audio, procs, nextPid, out, opsLeft>>

NextText ==
    \/ TextHighlight
    \/ TextJump
    \/ TextSetProgress
    \/ TextReset
    \/ TextSetHighlightEnabled
    \/ TextBuild
    \/ TextSaveProgress
    \/ TextRestoreProgress

TextSpec == InitText /\ [][NextText]_vars

---------------------------------------------------------------------------
(* The text is changed while the engine runs                               *)
(*                                                                         *)
(* A third specification: the host starts playback and loads another text  *)
(* (UIController.handleCustomTextChange, loadSutra) at any moment.  The    *)
(* texts are those parseTextToLines produces, verbal characters alone.     *)

LoadTexts == { <<"v", "v">>, <<"v", "v", "v">> }

\* handleCustomTextChange: textManager.loadText(text), whose timer renders
\* the text and resets the position RenderMs later, and
\* playbackControls.reset()
HostLoadText ==
    \E characters \in LoadTexts :
        HostCall("loadText",
                 [World EXCEPT !.tm = loadText(@, characters),
                               !.out.playState = <<FALSE, FALSE>>,
                               !.procs = @ \cup {Proc(nextPid, "render", "render",
                                                      0, NoEvents, BowlEvent, now,
                                                      RenderMs, now + RenderMs)},
                               !.nextPid = @ + 1])

\* the timer of loadText fires: renderLyrics, resetPosition
RenderTimer ==
    \E p \in procs :
        /\ p.st = "render"
        /\ TimerDue(p)
        /\ Commit([World EXCEPT !.procs = @ \ {p}, !.tm = resetPosition(@)])
        /\ lastAct' = "render"
        /\ UNCHANGED <<now, opsLeft>>

InitLoad ==
    /\ now = Epoch
    /\ engine = [isPlaying |-> FALSE, isPaused |-> FALSE, isLooping |-> FALSE,
                 playbackSpeed |-> SpeedUnit, currentSequence |-> NullSequence,
                 sequenceIndex |-> 0, sequenceStartTime |-> 0,
                 muyuStartTime |-> 0, textManager |-> FALSE]
    /\ audio = [playable |-> {"bowl", "muyu"}, sounding |-> FALSE, since |-> 0]
    /\ tm \in {TextManager(t) : t \in LoadTexts}
    /\ procs = {}
    /\ nextPid = 1
    /\ out = [cues |-> <<>>, progress |-> <<>>, completes |-> 0, errors |-> 0,
              playState |-> <<FALSE, FALSE>>, saved |-> NoProgress,
              isLooping |-> FALSE]
    /\ hist = [seq |-> NullSequence, runs |-> 0,
               stopped |-> FALSE, afterStop |-> 0, stops |-> 0,
               hostStops |-> 0,
               pausedIn |-> "none", remAtPause |-> {}, resumedFrom |-> "none",
               failed |-> FALSE, looping |-> FALSE, heldCue |-> FALSE,
               notices |-> 0, stoppedWaits |-> {},
               arg |-> Undefined]
    /\ lastAct = "init"
    /\ opsLeft = MaxOps

NextLoad ==
    \/ Tick
    \/ HostStart
    \/ HostStop
    \/ HostLoadText
    \/ RenderTimer
    \/ Poll
    \/ BowlEnded

LoadSpec == InitLoad /\ [][NextLoad]_vars

---------------------------------------------------------------------------
(* The speed setting                                                       *)
(*                                                                         *)
(* A fourth specification: one run with setPlaybackSpeed called with       *)
(* arguments at, inside and outside the limits 0.1 and 10.0.               *)

SpeedArgs == {0, 1, 20, 100, 101}

\* handleSpeedChange: audioEngine.setPlaybackSpeed(speed); hist.arg keeps the
\* argument
HostSetSpeedOf ==
    \E speed \in SpeedArgs :
        HostCall("setSpeed",
                 [setPlaybackSpeed(World, speed) EXCEPT !.hist.arg = speed])

NextSpeed ==
    \/ Tick
    \/ HostStart
    \/ HostSetSpeedOf
    \/ Poll
    \/ BowlEnded

SpeedSpec == InitLoad /\ [][NextSpeed]_vars

---------------------------------------------------------------------------
(* The loop button                                                         *)
(*                                                                         *)
(* A fifth specification: the loop button of the playback controls is      *)
(* pressed before, during and after a run.  out.isLooping is the isLooping *)
(* of the controls.                                                        *)

\* the callbacks UIController.setupCallbacks gives the playback controls:
\* onPlayPause, onReset and onProgressClick
onLoopToggleSet == FALSE

\* PlaybackControls.handleLoopToggle
handleLoopToggle(w) ==
    LET w1 == [w EXCEPT !.out.isLooping = ~@]
    IN IF onLoopToggleSet THEN setLooping(w1, w1.out.isLooping) ELSE w1

HostLoopToggle == HostCall("loopToggle", handleLoopToggle(World))

NextLoop ==
    \/ Tick
    \/ HostStart
    \/ HostLoopToggle
    \/ Poll
    \/ BowlEnded

LoopSpec == InitLoad /\ [][NextLoop]_vars

---------------------------------------------------------------------------
(* The rebasing of the anchor                                              *)
(*                                                                         *)
(* A sixth specification: the speed is changed among 1.0, 2.0 and 5.0      *)
(* during a run.  With these speeds and the anchor taken at a tick, every  *)
(* quotient of adjustPlaybackSpeed is a whole number of milliseconds, so   *)
(* the integer division of the model is the exact division of the code.    *)

RebaseSpeeds == {10, 20, 50}

HostRebase ==
    \E speed \in RebaseSpeeds :
        HostCall("setSpeed", setPlaybackSpeed(World, speed))

NextRebase ==
    \/ Tick
    \/ HostStart
    \/ HostRebase
    \/ Poll
    \/ BowlEnded

RebaseSpec == InitLoad /\ [][NextRebase]_vars

---------------------------------------------------------------------------
(* WebAudioEngine                                                          *)
(*                                                                         *)
(* A seventh specification: the engine built on the Web Audio API.  Here   *)
(* engine holds the fields of a WebAudioEngine, audio.state the state of   *)
(* its AudioContext, procs its timers (st "timer") and the calls of        *)
(* playNextInSequence suspended in playAudio at audioContext.resume()      *)
(* (st "resume"); out.cues are the items whose source was started and      *)
(* out.progress the items given to onCharacterHighlight.  Both audio       *)
(* buffers are preloaded.                                                  *)

WebItem(k) ==
    [audioKey |-> "muyu", delay |-> IF k = 0 THEN 0 ELSE BaseMs, charIndex |-> k]

WebSequence == [k \in 1..WebItems |-> WebItem(k - 1)]

stopSequence(w) ==
    LET w1 == [w EXCEPT !.engine.isPlaying = FALSE, !.engine.isPaused = FALSE]
        w2 == IF w1.engine.playbackTimer # 0
              THEN [w1 EXCEPT !.procs = {p \in @ : p.id # w1.engine.playbackTimer},
                              !.engine.playbackTimer = 0]
              ELSE w1
    IN [w2 EXCEPT !.out.playState = <<FALSE, FALSE>>]

\* playAudio from createBufferSource on: source.start(0)
startSource(w, item) ==
    [w EXCEPT !.out.cues = Append(@, item.charIndex),
              !.hist.heldCue = @ \/ ~w.engine.isPlaying \/ w.engine.isPaused]

\* playNextInSequence after `await this.playAudio(...)`: the index moves on
\* and the timer of the next item is set
scheduleNext(w, item) ==
    LET baseDelay == IF item.delay # 0 THEN item.delay ELSE DefaultDelayMs
        adjustedDelay == (baseDelay * SpeedUnit) \div w.engine.playbackSpeed
    IN [w EXCEPT !.engine.sequenceIndex = @ + 1,
                 !.engine.playbackTimer = w.nextPid,
                 !.procs = @ \cup {Proc(w.nextPid, "next", "timer", 0, NoEvents,
                                        item, now, adjustedDelay,
                                        now + adjustedDelay)},
                 !.nextPid = @ + 1]

playNextInSequence(w) ==
    IF \/ ~w.engine.isPlaying
       \/ w.engine.isPaused
       \/ w.engine.sequenceIndex >= Len(w.engine.currentSequence)
    THEN IF w.engine.sequenceIndex >= Len(w.engine.currentSequence)
         THEN [stopSequence(w) EXCEPT !.out.completes = @ + 1]
         ELSE w
    ELSE LET item == w.engine.currentSequence[w.engine.sequenceIndex + 1]
             w1 == [w EXCEPT !.out.progress = Append(@, item.charIndex)]
         IN IF w1.audio.state = "suspended"
            THEN [w1 EXCEPT !.procs = @ \cup {Proc(w.nextPid, "next", "resume",
                                                  w.engine.sequenceIndex,
                                                  NoEvents, item, now, 0, 0)},
                            !.nextPid = @ + 1]
            ELSE scheduleNext(startSource(w1, item), item)

playSequence(w, sequence, speed) ==
    IF w.engine.isPlaying
    THEN w
    ELSE playNextInSequence(
             [w EXCEPT !.engine.currentSequence = sequence,
                       !.engine.playbackSpeed = speed,
                       !.engine.sequenceIndex = 0,
                       !.engine.isPlaying = TRUE,
                       !.engine.isPaused = FALSE,
                       !.engine.sequenceStartTime = now,
                       !.out.playState = <<TRUE, FALSE>>,
                       !.out.cues = <<>>,
                       !.out.progress = <<>>,
                       !.out.completes = 0,
                       !.hist.runs = @ + 1])

pauseSequence(w) ==
    IF ~w.engine.isPlaying \/ w.engine.isPaused
    THEN w
    ELSE LET w1 == [w EXCEPT !.engine.isPaused = TRUE]
             w2 == IF w1.engine.playbackTimer # 0
                   THEN [w1 EXCEPT !.procs = {p \in @ : p.id # w1.engine.playbackTimer},
                                   !.engine.playbackTimer = 0]
                   ELSE w1
         IN [w2 EXCEPT !.out.playState = <<TRUE, TRUE>>]

resumeSequence(w) ==
    IF ~w.engine.isPlaying \/ ~w.engine.isPaused
    THEN w
    ELSE playNextInSequence([w EXCEPT !.engine.isPaused = FALSE,
                                      !.out.playState = <<TRUE, FALSE>>])

RECURSIVE ResumeAwaiting(_)

\* audioContext.resume() is fulfilled: the suspended calls go on in the order
\* they were made
ResumeAwaiting(w) ==
    LET awaiting == {p \in w.procs : p.st = "resume"}
    IN IF awaiting = {}
       THEN w
       ELSE LET p == CHOOSE q \in awaiting : \A r \in awaiting : q.id <= r.id
                w1 == [w EXCEPT !.procs = @ \ {p}]
            IN ResumeAwaiting(scheduleNext(startSource(w1, p.ev), p.ev))

HostPlaySequence ==
    \E speed \in Speeds :
        HostCall("playSequence", playSequence(World, WebSequence, speed))

HostPauseSequence == HostCall("pauseSequence", pauseSequence(World))

HostResumeSequence == HostCall("resumeSequence", resumeSequence(World))

\* the timer of playNextInSequence fires
NextTimer ==
    \E p \in procs :
        /\ p.st = "timer"
        /\ TimerDue(p)
        /\ Commit(playNextInSequence([World EXCEPT !.procs = @ \ {p}]))
        /\ lastAct' = "timer"
        /\ UNCHANGED <<now, opsLeft>>

ContextResumed ==
    /\ audio.state = "suspended"
    /\ \E p \in procs : p.st = "resume"
    /\ Commit(ResumeAwaiting([World EXCEPT !.audio.state = "running"]))
    /\ lastAct' = "contextResumed"
    /\ UNCHANGED <<now, opsLeft>>

InitWeb ==
    /\ now = Epoch
    /\ engine = [isPlaying |-> FALSE, isPaused |-> FALSE,
                 playbackSpeed |-> SpeedUnit, currentSequence |-> NoEvents,
                 sequenceIndex |-> 0, sequenceStartTime |-> 0,
                 playbackTimer |-> 0]
    /\ audio \in {[playable |-> {"bowl", "muyu"}, sounding |-> FALSE, since |-> 0,
                    state |-> state] : state \in {"running", "suspended"}}
    /\ tm = TextManager(<<>>)
    /\ procs = {}
    /\ nextPid = 1
    /\ out = [cues |-> <<>>, progress |-> <<>>, completes |-> 0, errors |-> 0,
              playState |-> <<FALSE, FALSE>>, saved |-> NoProgress,
              isLooping |-> FALSE]
    /\ hist = [seq |-> NullSequence, runs |-> 0,
               stopped |-> FALSE, afterStop |-> 0, stops |-> 0,
               hostStops |-> 0,
               pausedIn |-> "none", remAtPause |-> {}, resumedFrom |-> "none",
               failed |-> FALSE, looping |-> FALSE, heldCue |-> FALSE,
               notices |-> 0, stoppedWaits |-> {},
               arg |-> Undefined]
    /\ lastAct = "init"
    /\ opsLeft = MaxOps

NextWeb ==
    \/ Tick
    \/ HostPlaySequence
    \/ HostPauseSequence
    \/ HostResumeSequence
    \/ NextTimer
    \/ ContextResumed

WebSpec == InitWeb /\ [][NextWeb]_vars

---------------------------------------------------------------------------
(* Properties *)

\* the cues of a sequence, as the host hears them
CueList(sequence) ==
    [k \in 1..Len(sequence) |->
        <<sequence[k].type, sequence[k].characterIndex>>]

IsPrefix(a, b) == Len(a) <= Len(b) /\ \A k \in 1..Len(a) : a[k] = b[k]

NoFault == audio.playable = {"bowl", "muyu"}

\* C1: after a pause in the periodic phase and a resume, the cues sounded in
\* the run are still, in order and without repetition or gap, the cues of the
\* sequence: the resume continues with the cue that was pending.
C1_ResumeContinuesWithPendingCue ==
    (hist.resumedFrom = "periodic" /\ NoFault)
        => IsPrefix(out.cues, CueList(hist.seq))

\* C2: with looping on, when the restart timer of a completed run fires and no
\* stop was issued, a new run begins: the bowl sounds again and the run is at
\* its start.
C2_LoopRestartsRun ==
    (lastAct = "loopRestart" /\ hist.stops = 0 /\ "bowl" \in audio.playable)
        => /\ out.cues = <<<<"bowl", Undefined>>>>
           /\ engine.isPlaying
           /\ Phase(World) = "start"

\* C3: a speed change from s1 to s2 in the periodic phase scales the remaining
\* wait of every periodic cue not yet dispatched by s1/s2.
C3_SpeedChangeScalesRemainingWaits ==
    [][(/\ lastAct' = "setSpeed"
        /\ engine.isPlaying /\ ~engine.isPaused
        /\ engine'.playbackSpeed # engine.playbackSpeed)
        => \A p \in MuyuWaits(World) :
              /\ p \in procs'
              /\ (p.delay - (now' - p.startTime)) * engine'.playbackSpeed
                     = Remaining(p) * engine.playbackSpeed
              /\ \A j \in (p.i + 2)..Len(p.events) :
                    (p.events[j].delay - (now' - engine'.muyuStartTime))
                            * engine'.playbackSpeed
                        = (p.events[j].delay - (now - engine.muyuStartTime))
                            * engine.playbackSpeed]_vars

\* C4: setPlaybackSpeed during playback sounds no cue and changes nothing but
\* playbackSpeed and the periodic anchor muyuStartTime: isPlaying, isPaused,
\* the current sequence, the index of the next cue and every pending wait stay.
C4_SetSpeedKeepsPlayback ==
    [][(lastAct' = "setSpeed" /\ engine.isPlaying)
        => /\ engine' = [engine EXCEPT
                            !.playbackSpeed = engine'.playbackSpeed,
                            !.muyuStartTime = engine'.muyuStartTime]
           /\ procs' = procs
           /\ out' = out
           /\ tm' = tm
           /\ audio' = audio]_vars

C4_Witness ==
    /\ lastAct = "setSpeed"
    /\ engine.isPlaying
    /\ MuyuWaits(World) # {}
    /\ Len(hist.seq) > 2
    /\ hist.seq[3].delay * engine.playbackSpeed # BaseMs * SpeedUnit

\* C5: once stopPlayback has run, no cue sounds until the host starts again.
C5_NoCueAfterStop == hist.afterStop = 0

\* C6: stopPlayback raises no error in any state and leaves the engine idle:
\* not playing, not paused, sequenceIndex 0, no current sequence.
C6_StopLeavesIdle ==
    [][lastAct' = "stop"
        => /\ ~engine'.isPlaying
           /\ ~engine'.isPaused
           /\ engine'.sequenceIndex = 0
           /\ engine'.currentSequence = NullSequence
           /\ out'.errors = out.errors]_vars

C6_Witness ==
    /\ lastAct = "stop"
    /\ \E p \in procs : p.st = "wait"
    /\ ~engine.isPlaying /\ engine.currentSequence = NullSequence

\* C7: a run whose sequence has the bowl and no periodic cue completes when
\* the bowl has ended: the bowl is the only cue, isPlaying is false again and
\* onSequenceComplete was raised.
C7_EmptySequenceCompletes ==
    (/\ lastAct = "bowlEnded"
     /\ Len(hist.seq) = 1
     /\ hist.stops = 0 /\ hist.pausedIn = "none")
        => /\ out.cues = <<<<"bowl", Undefined>>>>
           /\ ~engine.isPlaying
           /\ out.completes = 1

\* C8: in a run without looping that the host does not stop, a periodic cue
\* that fails does not end the run: when the run is over, it is over because
\* the sequence completed.
C8_FailedCueDoesNotEndRun ==
    (/\ hist.failed
     /\ ~hist.looping
     /\ hist.hostStops = 0
     /\ ~engine.isPlaying)
        => out.completes = 1

\* C9: a run without looping and without stop raises onSequenceComplete at
\* most once, and when nothing of it is pending any more (no wait, no sounding
\* bowl, not paused) it has sounded every periodic cue, isPlaying is false and
\* onSequenceComplete was raised once.
C9_RunCompletesOnce ==
    (hist.runs >= 1 /\ ~hist.looping /\ hist.stops = 0 /\ NoFault)
        => /\ out.completes <= 1
           /\ (procs = {} /\ ~audio.sounding /\ ~engine.isPaused)
                 => /\ ~engine.isPlaying
                    /\ out.completes = 1
                    /\ \A k \in 1..Len(hist.seq) :
                          \E n \in 1..Len(out.cues) :
                              out.cues[n] = CueList(hist.seq)[k]

\* C10: a resume after a pause in the periodic phase leaves to the pending
\* cue the time that was left to it at the pause.
C10_ResumeKeepsRemainingWait ==
    [][(/\ lastAct' = "resume"
        /\ engine.isPaused /\ ~engine'.isPaused
        /\ hist.pausedIn = "periodic")
        => \A p \in {q \in procs' : q.kind = "phases" /\ q.st = "wait"} :
              <<p.id, p.delay - (now' - p.startTime)>> \in hist.remAtPause]_vars

\* how many cues of the given type the current run has sounded
CueCount(type) == Cardinality({n \in 1..Len(out.cues) : out.cues[n][1] = type})

\* C11: no periodic cue sounds before the start cue of the same run has
\* finished playing or failed: while the one bowl the run has sounded is still
\* playing, the run has sounded no muyu.
C11_NoPeriodicCueBeforeBowlEnds ==
    (audio.sounding /\ CueCount("bowl") = 1) => CueCount("muyu") = 0

\* C12: a start issued while a run is in progress, playing or paused, is
\* refused with an error reported to the caller (every error of the engine,
\* thrown or not, passes through handleError) and alters nothing of the run.
C12_StartWhilePlayingIsRefused ==
    [][(lastAct' = "start" /\ engine.isPlaying)
        => /\ out'.errors > out.errors
           /\ engine' = engine
           /\ procs' = procs
           /\ out'.cues = out.cues]_vars

C14_ResumeWhenNotPausedIsReported ==
    [][(lastAct' = "resume" /\ ~(engine.isPlaying /\ engine.isPaused))
        => out'.errors > out.errors]_vars

\* the indices of the verbal characters of a stream
VerbalIndices(characters) ==
    {i \in 0..(Len(characters) - 1) : characters[i + 1] = "v"}

\* C15: the sequence built for a character stream has exactly one periodic
\* cue for every verbal character, in the order of the stream, and none for a
\* punctuation or space character.
C15_OneCuePerVerbalCharacter ==
    lastAct = "build"
        => LET muyuEvents == SelectSeq(hist.seq, isMuyu)
           IN /\ Len(muyuEvents) = Cardinality(VerbalIndices(tm.characters))
              /\ {muyuEvents[k].characterIndex : k \in 1..Len(muyuEvents)}
                     = VerbalIndices(tm.characters)
              /\ \A k \in 1..(Len(muyuEvents) - 1) :
                    muyuEvents[k].characterIndex
                        < muyuEvents[k + 1].characterIndex

C15_Witness ==
    /\ lastAct = "build"
    /\ tm.characters = <<"v", "s", "v">>
    /\ Len(hist.seq) = 3

\* C16: after highlightCharacter(n) with highlighting enabled and n the index
\* of a character, n is the current and the only highlighted character and
\* every character before n is marked completed.
C16_HighlightMarksCurrentAndCompleted ==
    (/\ lastAct = "highlight"
     /\ tm.isHighlightEnabled
     /\ hist.arg \in 0..(Len(tm.characters) - 1))
        => /\ tm.currentCharIndex = hist.arg
           /\ tm.highlighted = {hist.arg}
           /\ \A i \in 0..(hist.arg - 1) : i \in tm.completed

C16_Witness ==
    /\ lastAct = "highlight"
    /\ tm.isHighlightEnabled
    /\ hist.arg = 1
    /\ Len(tm.characters) = 3
    /\ tm.completed = {0, 1}

\* C17: resetPosition returns the highlight state to the initial one whatever
\* preceded it: character 0, line 0, nothing highlighted, nothing completed.
C17_ResetClearsAllMarks ==
    lastAct = "reset"
        => /\ tm.currentCharIndex = 0
           /\ tm.currentLineIndex = 0
           /\ tm.highlighted = {}
           /\ tm.completed = {}

C17_Witness ==
    /\ lastAct = "reset"
    /\ hist.arg = 2
    /\ tm.completed = {}
    /\ tm.currentLineIndex = 0

\* C18: jumpToPosition(n), and setProgressPosition which seeks through it,
\* moves the position to n and marks no character between the previous
\* position and n as completed.
C18_JumpMarksNothingCompleted ==
    [][(lastAct' \in {"jump", "setProgress"}
            /\ tm'.currentCharIndex # tm.currentCharIndex)
        => \A i \in (tm.currentCharIndex + 1)..(tm'.currentCharIndex - 1) :
              i \in tm'.completed => i \in tm.completed]_vars

\* C19: a run started after a stop behaves like a first run.  With no pause
\* in it, a first run sounds, in order and without repetition or gap, the
\* cues of its sequence; so does every later run of the engine.
C19_RunAfterStopRepeatsFirstRun ==
    (/\ hist.runs >= 2
     /\ Len(hist.seq) > 1
     /\ hist.pausedIn = "none" /\ ~hist.looping /\ NoFault)
        => IsPrefix(out.cues, CueList(hist.seq))

\* the cue loops that are suspended and will go on: in a wait, or on the end
\* of a bowl that is playing
LiveLoops ==
    {p \in procs : /\ p.kind \in {"phases", "exec"}
                   /\ \/ p.st = "wait"
                      \/ p.st = "bowl" /\ audio.sounding}

\* C20: while the engine plays, at most one cue loop is live.
C20_AtMostOneLiveLoop ==
    engine.isPlaying => Cardinality(LiveLoops) <= 1

\* C21: stopPlayback cancels what the stopped run has pending, so in a run
\* started afterwards, with no pause in it, no cue of the sequence sounds
\* more than once.
C21_StoppedRunDispatchesNoFurtherCue ==
    (/\ hist.runs >= 2
     /\ Len(hist.seq) > 1
     /\ hist.pausedIn = "none" /\ ~hist.looping /\ NoFault)
        => \A k \in 1..Len(hist.seq) :
              Cardinality({n \in 1..Len(out.cues) :
                              out.cues[n] = CueList(hist.seq)[k]}) <= 1

\* C22: within one run the indices reported through onSequenceProgress (and
\* with them the character indices handed to highlightCharacter) are strictly
\* increasing.
C22_ProgressStrictlyIncreasing ==
    (hist.runs = 1 /\ hist.stops = 0 /\ ~hist.looping)
        => \A k \in 1..(Len(out.progress) - 1) :
              out.progress[k] < out.progress[k + 1]

\* C23: a periodic cue whose dispatch fails still has its progress
\* notification delivered, once: a run that is neither paused nor stopped
\* and has completed has reported every periodic index exactly once, failed
\* cues included.
C23_FailedCueStillReportsProgress ==
    (/\ hist.runs = 1 /\ hist.stops = 0 /\ ~hist.looping
     /\ hist.pausedIn = "none"
     /\ Len(hist.seq) > 1
     /\ out.completes = 1)
        => out.progress = [k \in 1..(Len(hist.seq) - 1) |-> k - 1]

\* C24: setPlaybackSpeed with an accepted speed, called while playing with
\* the anchor set, replaces the anchor by now - (now - anchor) * (oldSpeed /
\* newSpeed): the elapsed time counted from the new anchor, times the new
\* speed, is the elapsed time counted from the old anchor times the old speed.
C24_SpeedChangeRescalesAnchor ==
    [][(/\ lastAct' = "setSpeed"
        /\ engine.isPlaying
        /\ engine.muyuStartTime # 0)
          => /\ engine'.muyuStartTime # 0
             /\ (now' - engine'.muyuStartTime) * engine'.playbackSpeed
                    = (now - engine.muyuStartTime) * engine.playbackSpeed
             /\ now' = now]_vars

\* a speed change that halved a non-zero elapsed time has just been made
C24_Witness ==
    /\ lastAct = "setSpeed"
    /\ engine.isPlaying
    /\ engine.muyuStartTime # 0
    /\ engine.playbackSpeed = 20
    /\ (now - engine.muyuStartTime) % TickMs # 0

\* C25: after a speed change in the periodic phase every cue not yet
\* dispatched, the one whose wait is in progress included, is dispatched
\* when now - anchor (the moved anchor) first reaches the cue's offset: in a
\* run that is neither paused nor stopped, a wait that ends by dispatching
\* its cue does so no earlier than the cue's offset after the anchor.
C25_PendingCueFollowsMovedAnchor ==
    [][(/\ lastAct' = "poll"
        /\ hist.runs = 1 /\ hist.stops = 0 /\ ~hist.looping
        /\ hist.pausedIn = "none"
        /\ Len(out'.cues) > Len(out.cues))
          => \A p \in procs :
                (p.kind = "phases" /\ p.st = "wait")
                    => now - engine.muyuStartTime >= p.ev.delay]_vars

\* C26: no periodic cue is dispatched while the engine is paused or not
\* playing; a poll of a wait that finds the engine paused appends no cue and
\* leaves every wait suspended at its cue, and a poll that finds the engine
\* not playing appends no cue and ends the wait.
C26_NoCueWhilePausedOrStopped ==
    [][/\ ~hist'.heldCue
       /\ (lastAct' = "poll" /\ engine.isPlaying /\ engine.isPaused)
             => /\ out'.cues = out.cues
                /\ \A p \in procs : p.st = "wait" =>
                      \E q \in procs' :
                          /\ q.id = p.id /\ q.st = "wait"
                          /\ q.i = p.i /\ q.ev = p.ev
       /\ (lastAct' = "poll" /\ ~engine.isPlaying)
             => /\ out'.cues = out.cues
                /\ Cardinality(procs') = Cardinality(procs) - 1
                /\ procs' \subseteq procs]_vars

\* a poll has found the engine paused with the delay of a wait used up, and
\* the wait is still suspended
C26_Witness ==
    /\ lastAct = "poll"
    /\ engine.isPlaying /\ engine.isPaused
    /\ \E p \in procs : p.kind = "phases" /\ p.st = "wait" /\ Remaining(p) <= 0

\* C27: pausePlayback changes the paused flag only: it raises one play-state
\* notification and leaves the rest of the engine, the suspended loops, the
\* sound and the text position alone; called when the engine is not playing
\* or is already paused it changes nothing and raises no notification.
C27_PauseChangesOnlyPausedFlag ==
    [][lastAct' = "pause"
         => /\ engine' = [engine EXCEPT !.isPaused = engine'.isPaused]
            /\ procs' = procs /\ audio' = audio /\ tm' = tm
            /\ nextPid' = nextPid
            /\ out' = [out EXCEPT !.playState = out'.playState]
            /\ (engine.isPlaying /\ ~engine.isPaused)
                  => /\ engine'.isPaused
                     /\ hist'.notices = 1
                     /\ out'.playState = <<FALSE, TRUE>>
            /\ (~engine.isPlaying \/ engine.isPaused)
                  => /\ engine' = engine
                     /\ out' = out
                     /\ hist'.notices = 0]_vars

\* a pause has just been accepted while a wait for a periodic cue is suspended
C27_Witness ==
    /\ lastAct = "pause"
    /\ engine.isPlaying /\ engine.isPaused
    /\ hist.notices = 1
    /\ MuyuWaits(World) # {}

\* the waits of executeMuyuSequence that the step has created
NewMuyuWaits ==
    {q \in procs' :
        /\ q.kind = "phases" /\ q.st = "wait" /\ q.startTime = now'
        /\ ~\E p \in procs : p.id = q.id /\ p.st = "wait" /\ p.i = q.i}

\* C28: muyuStartTime is taken only after the start cue of the run has
\* completed: apart from a speed change it is assigned only in the step in
\* which the sounding bowl ends, to the time of that step; and every wait of
\* the periodic loop ends k * interval after the anchor for its cue k.
C28_AnchorTakenWhenStartCueCompletes ==
    [][/\ (engine'.muyuStartTime # engine.muyuStartTime /\ lastAct' # "setSpeed")
             => /\ lastAct' = "bowlEnded"
                /\ audio.sounding /\ now > audio.since
                /\ engine'.muyuStartTime = now'
       /\ \A q \in NewMuyuWaits :
             /\ q.startTime + q.delay = engine'.muyuStartTime + q.ev.delay
             /\ \E s \in Speeds :
                   q.ev.delay = (q.i * BaseMs * SpeedUnit) \div s]_vars

\* the bowl has just ended, cue 0 has sounded at the anchor taken in that
\* step and the loop waits for cue 1, due one interval after it
C28_Witness ==
    /\ lastAct = "bowlEnded"
    /\ engine.muyuStartTime = now
    /\ now > Epoch
    /\ Len(out.cues) >= 2
    /\ \E q \in procs :
          /\ q.kind = "phases" /\ q.st = "wait" /\ q.i = 1
          /\ q.startTime = now
          /\ q.delay = q.ev.delay /\ q.delay > 0

\* in the first run every periodic cue but the first is heard after the cue
\* before it
FirstRunCuesInOrder ==
    hist.runs = 1 =>
        LET muyuEvents == SelectSeq(hist.seq, isMuyu)
        IN \A n \in 1..Len(out.cues) : \A j \in 2..Len(muyuEvents) :
              out.cues[n] = <<"muyu", muyuEvents[j].characterIndex>>
                 => \E m \in 1..(n - 1) :
                       out.cues[m] = <<"muyu", muyuEvents[j - 1].characterIndex>>

C30_StopEndsWaitAtNextPoll ==
    [][/\ \A q \in procs' : q.st = "wait" => q.pollAt - now' <= PollMs
       /\ lastAct' = "poll"
             => \A p \in procs \ procs' :
                   (p.st = "wait" /\ p.id \in hist.stoppedWaits)
                       => /\ out'.cues = out.cues
                          /\ ~\E q \in procs' : q.id = p.id]_vars

\* C31: in the sequence built by createPlaybackSequence the k-th periodic cue
\* (k = 0, 1, ...) has delay k * (1000 / playbackSpeed) and carries the index
\* of the k-th verbal character: skipped punctuation and space characters do
\* not shift the delay of later cues.
C31_DelayByVerbalRank ==
    lastAct = "build"
        => LET muyuEvents == SelectSeq(hist.seq, isMuyu)
               verbal == VerbalIndices(tm.characters)
           IN \A k \in 0..(Len(muyuEvents) - 1) :
                 /\ muyuEvents[k + 1].delay * engine.playbackSpeed
                        = k * BaseMs * SpeedUnit
                 /\ muyuEvents[k + 1].characterIndex \in verbal
                 /\ Cardinality({i \in verbal :
                                    i < muyuEvents[k + 1].characterIndex}) = k

\* a sequence built at 2.0x for a text with a skipped character between two
\* verbal ones: the second cue is 500 ms after the first
C31_Witness ==
    /\ lastAct = "build"
    /\ engine.playbackSpeed = 20
    /\ tm.characters = <<"v", "p", "v">>
    /\ Len(hist.seq) = 3
    /\ hist.seq[3].delay = 500
    /\ hist.seq[3].characterIndex = 2

\* C32: highlightCharacter is idempotent and never un-completes: a second
\* call with the index of the call before it changes nothing, and a call
\* with any index, a lower one included, leaves every completed mark in place.
C32_HighlightIdempotentAndMonotone ==
    [][lastAct' = "highlight"
         => /\ tm.completed \subseteq tm'.completed
            /\ (lastAct = "highlight" /\ hist'.arg = hist.arg) => tm' = tm]_vars

\* highlightCharacter has just been called with an index below a mark that is
\* completed
C32_Witness ==
    /\ lastAct = "highlight"
    /\ tm.isHighlightEnabled
    /\ tm.currentCharIndex = hist.arg
    /\ \E i \in tm.completed : i > hist.arg

\* C33: when the source text changes, a sequence built from the text before
\* is no longer played: every progress notification of a run, and with it
\* every character it highlights, is for the sequence of the text that the
\* text manager holds.
C33_HighlightsBelongToCurrentText ==
    [][(Len(out'.progress) > Len(out.progress))
         => CueList(hist'.seq)
               = CueList(createPlaybackSequence(tm'.characters, SpeedUnit))]_vars

\* C34: each cue playback failure, of the blocking start cue or of a
\* fire-and-forget periodic cue, results in exactly one onError notification:
\* in a first run that the host neither pauses nor stops, a start cue that
\* cannot be played has raised one error, and a completed run whose periodic
\* cues cannot be played has raised one error for each of them.
C34_OneErrorPerFailedCue ==
    (/\ hist.runs = 1 /\ hist.hostStops = 0 /\ ~hist.looping
     /\ hist.pausedIn = "none" /\ Len(hist.seq) > 1)
        => /\ "bowl" \notin audio.playable => out.errors = 1
           /\ ("bowl" \in audio.playable /\ "muyu" \notin audio.playable
                 /\ out.completes = 1)
                 => out.errors = Len(hist.seq) - 1
           /\ NoFault => out.errors = 0

\* C35: the progress snapshot saved for a sutra holds the highlight position
\* at save time: after saveCurrentProgress the stored characterIndex is the
\* current character index of the text manager, and restorePlaybackProgress
\* jumps back to that character.
C35_SavedProgressHoldsPosition ==
    /\ lastAct = "save"
          => /\ out.saved.present
             /\ out.saved.characterIndex = tm.currentCharIndex
    /\ (lastAct = "restore" /\ out.saved.present /\ tm.isHighlightEnabled
          /\ Len(tm.characters) > 0)
          => tm.currentCharIndex = out.saved.characterIndex

\* C36: playbackSpeed stays within 0.1 .. 10.0 after any sequence of
\* setPlaybackSpeed calls: a call with a value inside the range sets it, and
\* a call with a value outside is rejected and leaves playbackSpeed and the
\* periodic anchor, with the rest of the engine, unchanged.
C36_SpeedStaysInRange ==
    [][/\ engine'.playbackSpeed \in MinSpeed..MaxSpeed
       /\ lastAct' = "setSpeed"
             => IF hist'.arg \in MinSpeed..MaxSpeed
                THEN engine'.playbackSpeed = hist'.arg
                ELSE engine' = engine /\ procs' = procs /\ out' = out]_vars

\* setPlaybackSpeed(10.1) has just been refused during the periodic phase,
\* some time after the anchor was taken
C36_Witness ==
    /\ lastAct = "setSpeed"
    /\ hist.arg = 101
    /\ engine.isPlaying
    /\ engine.muyuStartTime # 0
    /\ now > engine.muyuStartTime

\* C37: the play state shown by the playback controls mirrors the engine:
\* after each of start, pause, resume, stop, completion and a cue error that
\* does not end the run, the isPlaying and isPaused of the controls equal
\* those of the engine.
C37_ControlsMirrorEngine ==
    out.playState = <<engine.isPlaying, engine.isPaused>>

\* C38: the loop button sets the engine's isLooping to the value the controls
\* show, so the controls and the engine agree after any sequence of toggles.
C38_LoopControlMatchesEngine ==
    out.isLooping = engine.isLooping

\* the quotients of a speed change in RebaseSpec are whole numbers
RebaseQuotientsExact ==
    (engine.isPlaying /\ engine.muyuStartTime # 0)
        => \A s \in RebaseSpeeds :
              ((now - engine.muyuStartTime) * engine.playbackSpeed) % s = 0

\* C39: the rebasing of the anchor by adjustPlaybackSpeed is the identity for
\* equal speeds and composes: at one instant, a change from s1 to s1 leaves
\* the anchor unchanged, a change from s1 to s2 followed by one from s2 to s1
\* restores the anchor, and a change from s1 to s2 followed by one from s2 to
\* s3 gives the anchor of the change from s1 to s3.
C39_RebaseIsIdentityAndComposes ==
    [][/\ RebaseQuotientsExact
       /\ (lastAct' = "setSpeed" /\ engine.isPlaying /\ engine.muyuStartTime # 0)
             => LET s1 == engine.playbackSpeed
                    s2 == engine'.playbackSpeed
                IN /\ now' = now
                   /\ s2 = s1 => engine'.muyuStartTime = engine.muyuStartTime
                   /\ adjustPlaybackSpeed(World', s2, s1).engine.muyuStartTime
                         = engine.muyuStartTime
                   /\ \A s3 \in RebaseSpeeds :
                         adjustPlaybackSpeed(World', s2, s3).engine.muyuStartTime
                            = adjustPlaybackSpeed(World, s1, s3).engine.muyuStartTime]_vars

\* the speed has just been changed from 1.0 to 5.0 one tick after the anchor
\* was taken: the elapsed time of the anchor is a fifth of the tick
C39_Witness ==
    /\ lastAct = "setSpeed"
    /\ engine.isPlaying
    /\ engine.playbackSpeed = 50
    /\ engine.muyuStartTime # 0
    /\ (now - engine.muyuStartTime) * 5 = TickMs

\* the timers of playNextInSequence that are pending
PendingTimers == {p \in procs : p.st = "timer"}

\* C40: in WebAudioEngine, pauseSequence cancels the pending timer and
\* resumeSequence continues from the same sequenceIndex: across any
\* interleaving of playSequence, pauseSequence, resumeSequence and timer
\* callbacks, the items of the sequence are played once each and in order,
\* none while the engine is paused, at most one playback timer is pending,
\* and none is pending while the engine is paused.
C40_EachItemOnceInOrder ==
    /\ \A k \in 1..Len(out.cues) : out.cues[k] = k - 1
    /\ out.completes > 0 => Len(out.cues) = WebItems
    /\ ~hist.heldCue
    /\ Cardinality(PendingTimers) <= 1
    /\ engine.isPaused => PendingTimers = {}

====
